---- MODULE Spec2Model ----
(***************************************************************************)
(* Spiderman: a wrapper around a SpiderMonkey-style AST giving children,   *)
(* descendents, scopes and the identifiers of a scope.                      *)
(*                                                                         *)
(* The repository holds three revisions of the one source file:            *)
(*   "spiderman.js"  src/spiderman.js      (methods, parent links, scopes) *)
(*   "part_000"      src/unnamed/part_000  (getters, missing-child check,  *)
(*                                          TryStatement)                  *)
(*   "part_001"      src/unnamed/part_001  (no parent links, no scopes)    *)
(* The revision under analysis is the variable  variant , fixed by Init.   *)
(*                                                                         *)
(* Spec is the single caller of the JavaScript run-to-completion model.    *)
(* SpecConcurrent shares the wrapped tree between two callers whose reads  *)
(* and writes of the cache fields interleave; callers holds their          *)
(* activations and is empty under Spec.                                    *)
(***************************************************************************)
EXTENDS Integers, Sequences, FiniteSets, TLC

VARIABLES variant, tree, wrappers, scopes, result, callers

vars == <<variant, tree, wrappers, scopes, result, callers>>

Variants == {"spiderman.js", "part_000", "part_001"}

\* Longest list-valued field (arguments, body, cases...) of the synthetic
\* raw nodes generated in Init.
MaxList == 2

(***************************************************************************)
(* Raw nodes.  A raw tree is a sequence of raw nodes, the root at address  *)
(* 1; address 0 is null/undefined.  A raw node is its type, its name (for  *)
(* an Identifier) and its own enumerable fields in Object.keys order.  A   *)
(* field value is a node ("node", address a), an array ("list", addresses  *)
(* l, 0 for a hole), another truthy value ("prim", typeof t) or a falsy    *)
(* value ("falsy": null, undefined, false, 0, "").                         *)
(***************************************************************************)
fNode(key, a)  == [key |-> key, k |-> "node",  a |-> a, l |-> <<>>, t |-> "object"]
fList(key, l)  == [key |-> key, k |-> "list",  a |-> 0, l |-> l,    t |-> "object"]
fPrim(key, t)  == [key |-> key, k |-> "prim",  a |-> 0, l |-> <<>>, t |-> t]
fNull(key)     == [key |-> key, k |-> "falsy", a |-> 0, l |-> <<>>, t |-> "object"]

\* `type` is itself an enumerable field of every raw node.
N(type, name, fields) ==
  [type |-> type, name |-> name, fields |-> <<fPrim("type", "string")>> \o fields]

Ident(name) == N("Identifier", name, <<fPrim("name", "string")>>)
Lit         == N("Literal", "", <<fPrim("value", "number")>>)

HasKey(n, key) == \E i \in 1..Len(n.fields) : n.fields[i].key = key

\* node[key]: the field's value, a falsy value when the key is absent.
Get(n, key) ==
  IF HasKey(n, key)
  THEN n.fields[CHOOSE i \in 1..Len(n.fields) : n.fields[i].key = key]
  ELSE fNull(key)

\* node[key] as an entry of a children array: the address of the node, 0 for
\* a null or undefined value.
AsChild(v) == IF v.k = "node" THEN v.a ELSE 0

F(n, key) == AsChild(Get(n, key))

\* node[key] for an array-valued field.
L(n, key) == Get(n, key).l

\* `node[key] ? [node[key]] : []`
AsOptional(v) == IF v.k # "falsy" THEN <<AsChild(v)>> ELSE <<>>

Opt(n, key) == AsOptional(Get(n, key))

(***************************************************************************)
(* formatNode: `type (key:Kind, key:[], key:typeof, key)`.  The text is    *)
(* kept as its parts: the type and one [key, tag] per field, tag "" for a  *)
(* bare key.                                                               *)
(***************************************************************************)
formatProperty(t, f) ==
  IF f.k = "node" /\ f.a # 0 THEN [key |-> f.key, tag |-> t[f.a].type]
  ELSE IF f.k = "list" THEN [key |-> f.key, tag |-> "[]"]
  ELSE IF f.k = "prim" THEN [key |-> f.key, tag |-> f.t]
  ELSE [key |-> f.key, tag |-> ""]

formatNode(t, a) ==
  [type |-> t[a].type,
   properties |-> [i \in 1..Len(t[a].fields) |-> formatProperty(t, t[a].fields[i])]]

NoDigest == [type |-> "", properties |-> <<>>]

\* Thrown values.  The two string throws carry the digest; a TypeError is
\* raised by the runtime.
UnknownNodeType(t, a) == [name |-> "Unknown node type", digest |-> formatNode(t, a)]
MissingChild(t, a)    == [name |-> "Missing child", digest |-> formatNode(t, a)]
TypeError             == [name |-> "TypeError", digest |-> NoDigest]
NoError               == [name |-> "", digest |-> NoDigest]

(***************************************************************************)
(* _children: the raw children of the raw node at address a, by kind.      *)
(* Returns [ok, list, err]: the array (0 for a null or undefined entry),   *)
(* or the thrown value.  Array-valued fields are arrays in every input     *)
(* Init generates.                                                         *)
(***************************************************************************)
Ret(list) == [ok |-> TRUE,  list |-> list, err |-> NoError]
Throw(e)  == [ok |-> FALSE, list |-> <<>>, err |-> e]

\* The TryStatement case exists in part_000 only; the other two revisions
\* list the try fields under ThrowStatement.
KnowsTry == variant = "part_000"

TryFields(n) == <<F(n, "block")>> \o Opt(n, "handler") \o Opt(n, "finalizer")

ThrowStatementChildren(n) ==
  IF KnowsTry THEN <<F(n, "argument")>> ELSE TryFields(n)

\* Mutant: an unlisted kind is taken for a leaf.
DefaultCaseLeaf(a) == Ret(<<>>)

DefaultCase(a) == Throw(UnknownNodeType(tree, a))

_children(a) ==
  LET n == tree[a] IN
  CASE n.type = "Program"               -> Ret(L(n, "body"))
    [] n.type \in {"FunctionDeclaration", "FunctionExpression"}
                                        -> Ret(<<F(n, "body")>>)
    [] n.type = "EmptyStatement"        -> Ret(<<>>)
    [] n.type = "BlockStatement"        -> Ret(L(n, "body"))
    [] n.type = "ExpressionStatement"   -> Ret(<<F(n, "expression")>>)
    [] n.type = "IfStatement"           ->
         Ret(<<F(n, "test"), F(n, "consequent")>> \o Opt(n, "alternate"))
    [] n.type = "LabeledStatement"      -> Ret(<<F(n, "body")>>)
    [] n.type \in {"BreakStatement", "ContinueStatement"} -> Ret(<<>>)
    [] n.type = "WithStatement"         -> Ret(<<F(n, "object"), F(n, "body")>>)
    [] n.type = "SwitchStatement"       ->
         Ret(<<F(n, "discriminant")>> \o L(n, "cases"))
    [] n.type = "ReturnStatement"       -> Ret(Opt(n, "argument"))
    [] n.type = "ThrowStatement"        -> Ret(ThrowStatementChildren(n))
    [] n.type = "TryStatement" /\ KnowsTry -> Ret(TryFields(n))
    [] n.type = "WhileStatement"        -> Ret(<<F(n, "test"), F(n, "body")>>)
    [] n.type = "DoWhileStatement"      -> Ret(<<F(n, "body"), F(n, "test")>>)
    [] n.type = "ForStatement"          ->
         Ret(Opt(n, "init") \o Opt(n, "test") \o Opt(n, "update")
             \o <<F(n, "body")>>)
    [] n.type \in {"ForInStatement", "ForOfStatement"} ->
         Ret(<<F(n, "left"), F(n, "right"), F(n, "body")>>)
    [] n.type = "LetStatement"          -> Ret(<<F(n, "head"), F(n, "body")>>)
    [] n.type = "DebuggerStatement"     -> Ret(<<>>)
    [] n.type = "VariableDeclaration"   -> Ret(L(n, "declarations"))
    [] n.type = "VariableDeclarator"    -> Ret(<<F(n, "init")>>)
    [] n.type = "ThisExpression"        -> Ret(<<>>)
    [] n.type = "ArrayExpression"       -> Ret(L(n, "elements"))
    [] n.type = "ObjectExpression"      -> Ret(L(n, "properties"))
    [] n.type = "Property"              -> Ret(<<F(n, "key"), F(n, "value")>>)
    [] n.type = "ArrowExpression"       -> Ret(<<F(n, "body")>>)
    [] n.type = "SequenceExpression"    -> Ret(L(n, "expressions"))
    [] n.type = "UnaryExpression"       -> Ret(<<F(n, "argument")>>)
    [] n.type \in {"BinaryExpression", "AssignmentExpression", "LogicalExpression"}
                                        -> Ret(<<F(n, "left"), F(n, "right")>>)
    [] n.type = "UpdateExpression"      -> Ret(<<F(n, "argument")>>)
    [] n.type = "ConditionalExpression" ->
         Ret(<<F(n, "test"), F(n, "consequent"), F(n, "alternate")>>)
    [] n.type \in {"NewExpression", "CallExpression"} ->
         Ret(<<F(n, "callee")>> \o L(n, "arguments"))
    [] n.type = "MemberExpression"      -> Ret(<<F(n, "object"), F(n, "property")>>)
    [] n.type = "YieldExpression"       -> Ret(<<F(n, "argument")>>)
    [] n.type = "SwitchCase"            -> Ret(Opt(n, "test") \o L(n, "consequent"))
    [] n.type = "CatchClause"           -> Ret(<<F(n, "param"), F(n, "body")>>)
    [] n.type \in {"Identifier", "Literal"} -> Ret(<<>>)
    [] OTHER                            -> DefaultCase(a)

(***************************************************************************)
(* Wrapped nodes and scopes.  wrappers is the heap of Spiderman.Node       *)
(* objects reachable from the root wrapper (wrapper 1); a wrapper's        *)
(* identity is its index.  node is the raw address (0: the constructor of  *)
(* part_001 returned early on a null node and set nothing), parent the     *)
(* wrapper it was created under (0: undefined).  scopes is the heap of     *)
(* Spiderman.Scope objects.  Objects allocated by a call that throws       *)
(* before storing them are unreachable and are not kept.                   *)
(***************************************************************************)
\* part_001's constructor takes no parent and that revision has no scopes.
HasParentLinks == variant # "part_001"

Node(node, parent) ==
  [node |-> node, parent |-> IF HasParentLinks THEN parent ELSE 0,
   hasChildren |-> FALSE, cachedChildren |-> <<>>, cachedScope |-> 0]

Scope(node) == [node |-> node, hasIdentifiers |-> FALSE, cachedIdentifiers |-> <<>>]

TypeOf(ws, w) == IF ws[w].node = 0 THEN "" ELSE tree[ws[w].node].type

HasNull(s) == \E i \in 1..Len(s) : s[i] = 0

NodeOk(ws, list)  == [ws |-> ws, ok |-> TRUE,  list |-> list, err |-> NoError]
NodeErr(ws, e)    == [ws |-> ws, ok |-> FALSE, list |-> <<>>, err |-> e]

\* Mutant: the cache is never consulted.
ChildrenNeverCached(ws, w) == FALSE

\* `this.cachedChildren || ...`: an array, even an empty one, is truthy.
ChildrenCached(ws, w) == ws[w].hasChildren

\* The map callback applied to an array holding a null or undefined entry.
\*   spiderman.js: new Spiderman.Node(undefined, node) reads node.type.
\*   part_000: `throw 'Missing child: ' + Spiderman.formatNode(self)`; the
\*     operand is evaluated first and Spiderman.formatNode is not defined in
\*     that revision (formatNode is a local function), so the call raises a
\*     TypeError and the string is never thrown.
\*   part_001: the constructor returns early; the entry is wrapped.
NullChildThrows == variant # "part_001"

NullChildError == TypeError

\* The wrappers of the raw children, appended to the heap in order.
WrapAll(ws, w, raw) == ws \o [i \in 1..Len(raw) |-> Node(raw[i], w)]

NewIds(ws, raw) == [i \in 1..Len(raw) |-> Len(ws) + i]

\* Mutant: the cache is marked filled before the map throws.
wrapChildrenMarked(ws, w, r) ==
  IF ~r.ok THEN NodeErr([ws EXCEPT ![w].hasChildren = TRUE], r.err)
  ELSE IF HasNull(r.list) /\ NullChildThrows
       THEN NodeErr([ws EXCEPT ![w].hasChildren = TRUE], NullChildError)
  ELSE NodeOk([WrapAll(ws, w, r.list) EXCEPT ![w].hasChildren = TRUE,
                                             ![w].cachedChildren = NewIds(ws, r.list)],
              NewIds(ws, r.list))

\* The map over the extractor's result r, and the store into the cache.
wrapChildren(ws, w, r) ==
  IF ~r.ok THEN NodeErr(ws, r.err)
  ELSE IF HasNull(r.list) /\ NullChildThrows THEN NodeErr(ws, NullChildError)
  ELSE NodeOk([WrapAll(ws, w, r.list) EXCEPT ![w].hasChildren = TRUE,
                                             ![w].cachedChildren = NewIds(ws, r.list)],
              NewIds(ws, r.list))

\* Mutant: the extracted children are validated when they are wrapped.
childrenEager(ws, w) ==
  IF ChildrenCached(ws, w) THEN NodeOk(ws, ws[w].cachedChildren)
  ELSE IF ws[w].node = 0 THEN NodeErr(ws, TypeError)
  ELSE IF \E i \in 1..Len(_children(ws[w].node).list) :
            LET c == _children(ws[w].node).list[i]
            IN c # 0 /\ (~_children(c).ok \/ HasNull(_children(c).list))
       THEN NodeErr(ws, TypeError)
  ELSE wrapChildren(ws, w, _children(ws[w].node))

\* A wrapper without a raw node (part_001 only) fails on `node.type`.
children(ws, w) ==
  IF ChildrenCached(ws, w) THEN NodeOk(ws, ws[w].cachedChildren)
  ELSE IF ws[w].node = 0 THEN NodeErr(ws, TypeError)
  ELSE wrapChildren(ws, w, _children(ws[w].node))

\* spiderman.js and part_000 pass the accumulating list down the recursion;
\* part_001 concatenates the list each child returns.
UsesAccumulator == variant # "part_001"

RECURSIVE descendents(_, _, _)
RECURSIVE descendentsLoop(_, _, _, _)
RECURSIVE descendentsOver(_, _)
RECURSIVE descendentsNext(_, _, _, _)

\* descendents(list): c is what this.children() gave.
descendents(ws, w, list) == descendentsOver(children(ws, w), list)

descendentsOver(c, list) ==
  IF ~c.ok THEN c ELSE descendentsLoop(c.ws, c.list, 1, list)

\* The for loop at index i (from 1); r is what children[i].descendents gave.
descendentsLoop(ws, ch, i, list) ==
  IF i > Len(ch) THEN NodeOk(ws, list)
  ELSE descendentsNext(
         descendents(ws, ch[i], IF UsesAccumulator THEN Append(list, ch[i]) ELSE <<>>),
         ch, i, list)

\* Mutant: the child is listed, its own descendents are dropped.
descendentsNextShallow(r, ch, i, list) ==
  IF ~r.ok THEN r ELSE descendentsLoop(r.ws, ch, i + 1, Append(list, ch[i]))

descendentsNext(r, ch, i, list) ==
  IF ~r.ok THEN r
  ELSE descendentsLoop(r.ws, ch, i + 1,
         IF UsesAccumulator THEN r.list ELSE Append(list, ch[i]) \o r.list)

ScopeKinds == {"Program", "FunctionDeclaration", "FunctionExpression"}

\* Mutant: a function expression introduces no scope.
IntroducesScopeDeclOnly(type) == type \in {"Program", "FunctionDeclaration"}

IntroducesScope(type) == type \in ScopeKinds

ScopeOk(ws, ss, s)  == [ws |-> ws, ss |-> ss, ok |-> TRUE,  scope |-> s, err |-> NoError]
ScopeErr(ws, ss, e) == [ws |-> ws, ss |-> ss, ok |-> FALSE, scope |-> 0, err |-> e]

\* Mutant: the cached scope is never consulted.
ScopeNeverCached(ws, w) == FALSE

\* `this.cachedScope || ...`
ScopeCached(ws, w) == ws[w].cachedScope # 0

\* `this.cachedScope = this._scope()`: r is what _scope gave.
cacheScope(r, w) ==
  IF ~r.ok THEN r
  ELSE ScopeOk([r.ws EXCEPT ![w].cachedScope = r.scope], r.ss, r.scope)

RECURSIVE scope(_, _, _)
RECURSIVE _scope(_, _, _)

scope(ws, ss, w) ==
  IF ScopeCached(ws, w) THEN ScopeOk(ws, ss, ws[w].cachedScope)
  ELSE cacheScope(_scope(ws, ss, w), w)

\* `this.parent.scope()` with parent undefined is a TypeError.
_scope(ws, ss, w) ==
  IF IntroducesScope(TypeOf(ws, w)) THEN ScopeOk(ws, Append(ss, Scope(w)), Len(ss) + 1)
  ELSE IF ws[w].parent = 0 THEN ScopeErr(ws, ss, TypeError)
  ELSE scope(ws, ss, ws[w].parent)

\* Mutant: the node's own scope instead of its parent's.
parentScopeOwn(ws, ss, w) == scope(ws, ss, w)

parentScope(ws, ss, w) ==
  IF ws[w].parent = 0 THEN ScopeErr(ws, ss, TypeError)
  ELSE scope(ws, ss, ws[w].parent)

\* `node.id && node.id.type === 'Identifier'`
HasIdentifierId(a) ==
  /\ a # 0
  /\ Get(tree[a], "id").k = "node"
  /\ tree[Get(tree[a], "id").a].type = "Identifier"

IdName(a) == tree[Get(tree[a], "id").a].name

IdsOk(ws, ss, names) == [ws |-> ws, ss |-> ss, ok |-> TRUE,  names |-> names, err |-> NoError]
IdsErr(ws, ss, e)    == [ws |-> ws, ss |-> ss, ok |-> FALSE, names |-> <<>>,  err |-> e]

RECURSIVE identifiersLoop(_, _, _, _, _)
RECURSIVE identifiersStep(_, _, _, _, _)

\* The forEach over the descendents ds at index i; p is what
\* node.parentScope() gave for ds[i].
identifiersLoop(ws, ss, s, ds, list) ==
  IF ds = <<>> THEN IdsOk(ws, ss, list)
  ELSE identifiersStep(parentScope(ws, ss, Head(ds)), s, Head(ds), Tail(ds), list)

\* Mutant: the scope of the descendant is not compared.
identifiersStepAll(p, s, d, rest, list) ==
  IF ~p.ok THEN IdsErr(p.ws, p.ss, p.err)
  ELSE identifiersLoop(p.ws, p.ss, s, rest,
         IF HasIdentifierId(p.ws[d].node)
         THEN Append(list, IdName(p.ws[d].node))
         ELSE list)

identifiersStep(p, s, d, rest, list) ==
  IF ~p.ok THEN IdsErr(p.ws, p.ss, p.err)
  ELSE identifiersLoop(p.ws, p.ss, s, rest,
         IF p.scope = s /\ HasIdentifierId(p.ws[d].node)
         THEN Append(list, IdName(p.ws[d].node))
         ELSE list)

\* d is what this.node.descendents() gave.
identifiersOver(d, ss, s) ==
  IF ~d.ok THEN IdsErr(d.ws, ss, d.err)
  ELSE identifiersLoop(d.ws, ss, s, d.list, <<>>)

_identifiers(ws, ss, s) == identifiersOver(descendents(ws, ss[s].node, <<>>), ss, s)

\* `this.cachedIdentifiers || ...`
IdentifiersCached(ss, s) == ss[s].hasIdentifiers

\* `this.cachedIdentifiers = this._identifiers()`: r is what _identifiers gave.
cacheIdentifiers(r, s) ==
  IF ~r.ok THEN r
  ELSE IdsOk(r.ws, [r.ss EXCEPT ![s].hasIdentifiers = TRUE,
                                ![s].cachedIdentifiers = r.names],
             r.names)

identifiers(ws, ss, s) ==
  IF IdentifiersCached(ss, s) THEN IdsOk(ws, ss, ss[s].cachedIdentifiers)
  ELSE cacheIdentifiers(_identifiers(ws, ss, s), s)

(***************************************************************************)
(* Inputs.  Synthetic raw nodes, one shape per kind and per combination of *)
(* optional fields, with leaves for children; and whole programs with      *)
(* nested functions.                                                       *)
(***************************************************************************)
DN(key)    == [key |-> key, k |-> "node",  n |-> 1]
DL(key, n) == [key |-> key, k |-> "list",  n |-> n]
DZ(key)    == [key |-> key, k |-> "falsy", n |-> 0]
DP(key)    == [key |-> key, k |-> "prim",  n |-> 0]

\* An optional field: a node, null, or not there at all.
Presence == {"node", "null", "absent"}
DO(key, p) == IF p = "node" THEN <<DN(key)>> ELSE IF p = "null" THEN <<DZ(key)>> ELSE <<>>

RECURSIVE LeavesBefore(_, _)
LeavesBefore(ds, i) == IF i <= 1 THEN 0 ELSE LeavesBefore(ds, i - 1) + ds[i - 1].n

SynField(ds, i) ==
  LET first == 2 + LeavesBefore(ds, i) IN
  CASE ds[i].k = "node"  -> fNode(ds[i].key, first)
    [] ds[i].k = "list"  -> fList(ds[i].key, [j \in 1..ds[i].n |-> first + j - 1])
    [] ds[i].k = "prim"  -> fPrim(ds[i].key, "string")
    [] OTHER             -> fNull(ds[i].key)

Leaf(a) == IF a % 2 = 0 THEN Ident("x") ELSE Lit

Syn(type, ds) ==
  <<N(type, "", [i \in 1..Len(ds) |-> SynField(ds, i)])>>
    \o [j \in 1..LeavesBefore(ds, Len(ds) + 1) |-> Leaf(j + 1)]

Lens == 0..MaxList

Shapes ==
  {Syn("Program", <<DL("body", n)>>) : n \in Lens}
  \cup {Syn("BlockStatement", <<DL("body", n)>>) : n \in Lens}
  \cup {Syn("FunctionDeclaration", <<DN("id"), DL("params", 0), DN("body")>>),
        Syn("FunctionExpression", <<DZ("id"), DL("params", 0), DN("body")>>),
        Syn("EmptyStatement", <<>>),
        Syn("ExpressionStatement", <<DN("expression")>>),
        Syn("LabeledStatement", <<DP("label"), DN("body")>>),
        Syn("BreakStatement", <<DZ("label")>>),
        Syn("ContinueStatement", <<DZ("label")>>),
        Syn("WithStatement", <<DN("object"), DN("body")>>),
        Syn("ThrowStatement", <<DN("argument")>>),
        Syn("WhileStatement", <<DN("test"), DN("body")>>),
        Syn("DoWhileStatement", <<DN("body"), DN("test")>>),
        Syn("ForInStatement", <<DN("left"), DN("right"), DN("body"), DZ("each")>>),
        Syn("ForOfStatement", <<DN("left"), DN("right"), DN("body")>>),
        Syn("LetStatement", <<DN("head"), DN("body")>>),
        Syn("DebuggerStatement", <<>>),
        Syn("ThisExpression", <<>>),
        Syn("Property", <<DN("key"), DN("value"), DP("kind")>>),
        Syn("ArrowExpression", <<DL("params", 0), DN("body")>>),
        Syn("UnaryExpression", <<DP("operator"), DP("prefix"), DN("argument")>>),
        Syn("BinaryExpression", <<DP("operator"), DN("left"), DN("right")>>),
        Syn("AssignmentExpression", <<DP("operator"), DN("left"), DN("right")>>),
        Syn("LogicalExpression", <<DP("operator"), DN("left"), DN("right")>>),
        Syn("UpdateExpression", <<DP("operator"), DN("argument"), DZ("prefix")>>),
        Syn("ConditionalExpression", <<DN("test"), DN("alternate"), DN("consequent")>>),
        Syn("MemberExpression", <<DZ("computed"), DN("object"), DN("property")>>),
        Syn("CatchClause", <<DN("param"), DN("body")>>),
        Syn("Identifier", <<DP("name")>>),
        Syn("Literal", <<DP("value")>>)}
  \cup {Syn("IfStatement", <<DN("test"), DN("consequent")>> \o DO("alternate", p)) :
          p \in Presence}
  \cup {Syn("SwitchStatement", <<DN("discriminant"), DL("cases", n)>>) : n \in Lens}
  \cup {Syn("SwitchCase", DO("test", p) \o <<DL("consequent", n)>>) :
          p \in Presence, n \in Lens}
  \cup {Syn("ReturnStatement", DO("argument", p)) : p \in Presence}
  \cup {Syn("TryStatement", <<DN("block")>> \o DO("handler", p) \o DO("finalizer", q)) :
          p \in {"node", "null"}, q \in {"node", "null"}}
  \cup {Syn("ForStatement", DO("init", p) \o DO("test", q) \o DO("update", r)
                             \o <<DN("body")>>) :
          p \in {"node", "null"}, q \in {"node", "null"}, r \in {"node", "null"}}
  \cup {Syn("VariableDeclaration", <<DL("declarations", n), DP("kind")>>) : n \in Lens}
  \cup {Syn("VariableDeclarator", <<DN("id")>> \o DO("init", p)) : p \in {"node", "null"}}
  \cup {Syn("ArrayExpression", <<DL("elements", n)>>) : n \in Lens}
  \cup {Syn("ObjectExpression", <<DL("properties", n)>>) : n \in Lens}
  \cup {Syn("SequenceExpression", <<DL("expressions", n)>>) : n \in Lens}
  \cup {Syn("NewExpression", <<DN("callee"), DL("arguments", n)>>) : n \in Lens}
  \cup {Syn("CallExpression", <<DN("callee"), DL("arguments", n)>>) : n \in Lens}
  \cup {Syn("YieldExpression", DO("argument", p)) : p \in {"node", "null"}}

\* Raw nodes no revision lists: a made-up kind, with a field of every sort.
UnsupportedShapes ==
  {Syn("MadeUpKind", <<DN("left"), DL("items", 1), DP("flag"), DZ("none")>>),
   Syn("ClassDeclaration", <<DN("id"), DN("body")>>)}

\* Recognized kinds with a required child missing, and an array with a hole.
MalformedShapes ==
  {Syn("IfStatement", <<DN("test")>>),
   Syn("WhileStatement", <<DN("test"), DZ("body")>>),
   Syn("ExpressionStatement", <<>>),
   <<N("ArrayExpression", "", <<fList("elements", <<2, 0>>)>>), Lit>>,
   <<N("Program", "", <<fList("body", <<2>>)>>),
     N("IfStatement", "", <<fNode("test", 3)>>),
     Ident("x")>>}

FunctionNode(type, id, body) ==
  N(type, "", <<fNode("id", id), fList("params", <<>>), fNode("body", body)>>)

Block(body) == N("BlockStatement", "", <<fList("body", body)>>)

VarDecl(ds) ==
  N("VariableDeclaration", "", <<fList("declarations", ds), fPrim("kind", "string")>>)

\* function f() { (function g() {}); }
NestedProgram ==
  <<N("Program", "", <<fList("body", <<2>>)>>),
    FunctionNode("FunctionDeclaration", 3, 4),
    Ident("f"),
    Block(<<5>>),
    N("ExpressionStatement", "", <<fNode("expression", 6)>>),
    FunctionNode("FunctionExpression", 7, 8),
    Ident("g"),
    Block(<<>>)>>

\* var a = 1, a = 1;
RedeclaringProgram ==
  <<N("Program", "", <<fList("body", <<2>>)>>),
    VarDecl(<<3, 6>>),
    N("VariableDeclarator", "", <<fNode("id", 4), fNode("init", 5)>>),
    Ident("a"),
    Lit,
    N("VariableDeclarator", "", <<fNode("id", 7), fNode("init", 8)>>),
    Ident("a"),
    Lit>>

\* function f() { var b = 1; }
DeclaringProgram ==
  <<N("Program", "", <<fList("body", <<2>>)>>),
    FunctionNode("FunctionDeclaration", 3, 4),
    Ident("f"),
    Block(<<5>>),
    VarDecl(<<6>>),
    N("VariableDeclarator", "", <<fNode("id", 7), fNode("init", 8)>>),
    Ident("b"),
    Lit>>

\* function f() { throw e; }
ThrowingProgram ==
  <<N("Program", "", <<fList("body", <<2>>)>>),
    FunctionNode("FunctionDeclaration", 3, 4),
    Ident("f"),
    Block(<<5>>),
    N("ThrowStatement", "", <<fNode("argument", 6)>>),
    Ident("e")>>

\* var x;
UninitializedProgram ==
  <<N("Program", "", <<fList("body", <<2>>)>>),
    VarDecl(<<3>>),
    N("VariableDeclarator", "", <<fNode("id", 4), fNull("init")>>),
    Ident("x")>>

Programs ==
  {NestedProgram, RedeclaringProgram, DeclaringProgram, ThrowingProgram,
   UninitializedProgram}

Trees == Shapes \cup UnsupportedShapes \cup MalformedShapes \cup Programs

(***************************************************************************)
(* The state machine: a caller holding the root wrapper calls children,    *)
(* descendents, scope and identifiers on the objects it has obtained.      *)
(***************************************************************************)
NoResult ==
  [op |-> "", target |-> 0, ok |-> TRUE, list |-> <<>>, names |-> <<>>,
   scope |-> 0, err |-> NoError]

\* Spiderman(ast): the root wrapper, nothing expanded.
Init ==
  /\ variant \in Variants
  /\ tree \in Trees
  /\ wrappers = <<Node(1, 0)>>
  /\ scopes = <<>>
  /\ result = NoResult
  /\ callers = <<>>

\* The state after a call that gave r, and what the caller saw.
NodeCall(op, w, r) ==
  /\ wrappers' = r.ws
  /\ result' = [NoResult EXCEPT !.op = op, !.target = w, !.ok = r.ok,
                                !.list = r.list, !.err = r.err]
  /\ UNCHANGED <<variant, tree, scopes, callers>>

ScopeCall(w, r) ==
  /\ wrappers' = r.ws
  /\ scopes' = r.ss
  /\ result' = [NoResult EXCEPT !.op = "scope", !.target = w, !.ok = r.ok,
                                !.scope = r.scope, !.err = r.err]
  /\ UNCHANGED <<variant, tree, callers>>

IdentifiersCall(s, r) ==
  /\ wrappers' = r.ws
  /\ scopes' = r.ss
  /\ result' = [NoResult EXCEPT !.op = "identifiers", !.target = s, !.ok = r.ok,
                                !.names = r.names, !.err = r.err]
  /\ UNCHANGED <<variant, tree, callers>>

Children(w) == NodeCall("children", w, children(wrappers, w))

Descendents(w) == NodeCall("descendents", w, descendents(wrappers, w, <<>>))

\* part_001 has no scope method.
GetScope(w) == HasParentLinks /\ ScopeCall(w, scope(wrappers, scopes, w))

Identifiers(s) == IdentifiersCall(s, identifiers(wrappers, scopes, s))

Next ==
  \/ \E w \in 1..Len(wrappers) : Children(w)
  \/ \E w \in 1..Len(wrappers) : Descendents(w)
  \/ \E w \in 1..Len(wrappers) : GetScope(w)
  \/ \E s \in 1..Len(scopes) : Identifiers(s)

Spec == Init /\ [][Next]_vars

(***************************************************************************)
(* The grammar table of the design (section 4.1), as data: per kind, the   *)
(* child positions in order.  "one" is a single child, "opt" a child       *)
(* listed when present, "list" a list of children.                         *)
(***************************************************************************)
E1(key) == [key |-> key, mode |-> "one"]
EO(key) == [key |-> key, mode |-> "opt"]
EL(key) == [key |-> key, mode |-> "list"]

LeafKinds ==
  {"Identifier", "Literal", "EmptyStatement", "BreakStatement", "ContinueStatement",
   "DebuggerStatement", "ThisExpression"}

GrammarTable ==
  [Program |-> <<EL("body")>>,
   FunctionDeclaration |-> <<E1("body")>>,
   FunctionExpression |-> <<E1("body")>>,
   BlockStatement |-> <<EL("body")>>,
   ExpressionStatement |-> <<E1("expression")>>,
   IfStatement |-> <<E1("test"), E1("consequent"), EO("alternate")>>,
   WhileStatement |-> <<E1("test"), E1("body")>>,
   DoWhileStatement |-> <<E1("body"), E1("test")>>,
   ForStatement |-> <<EO("init"), EO("test"), EO("update"), E1("body")>>,
   ForInStatement |-> <<E1("left"), E1("right"), E1("body")>>,
   ForOfStatement |-> <<E1("left"), E1("right"), E1("body")>>,
   VariableDeclaration |-> <<EL("declarations")>>,
   VariableDeclarator |-> <<E1("init")>>,
   ArrayExpression |-> <<EL("elements")>>,
   ObjectExpression |-> <<EL("properties")>>,
   Property |-> <<E1("key"), E1("value")>>,
   UnaryExpression |-> <<E1("argument")>>,
   UpdateExpression |-> <<E1("argument")>>,
   YieldExpression |-> <<E1("argument")>>,
   ThrowStatement |-> <<E1("argument")>>,
   BinaryExpression |-> <<E1("left"), E1("right")>>,
   LogicalExpression |-> <<E1("left"), E1("right")>>,
   AssignmentExpression |-> <<E1("left"), E1("right")>>,
   ConditionalExpression |-> <<E1("test"), E1("consequent"), E1("alternate")>>,
   CallExpression |-> <<E1("callee"), EL("arguments")>>,
   NewExpression |-> <<E1("callee"), EL("arguments")>>,
   MemberExpression |-> <<E1("object"), E1("property")>>,
   SwitchStatement |-> <<E1("discriminant"), EL("cases")>>,
   SwitchCase |-> <<EO("test"), EL("consequent")>>,
   TryStatement |-> <<E1("block"), EO("handler"), EO("finalizer")>>,
   CatchClause |-> <<E1("param"), E1("body")>>]

GrammarKinds == DOMAIN GrammarTable \cup LeafKinds

TableEntries(type) == IF type \in LeafKinds THEN <<>> ELSE GrammarTable[type]

TablePosition(n, e) ==
  CASE e.mode = "one"  -> <<F(n, e.key)>>
    [] e.mode = "opt"  -> Opt(n, e.key)
    [] e.mode = "list" -> L(n, e.key)

RECURSIVE TableConcat(_, _)
TableConcat(n, es) ==
  IF es = <<>> THEN <<>> ELSE TablePosition(n, Head(es)) \o TableConcat(n, Tail(es))

\* The children the table lists for the raw node at address a.
TableChildren(a) ==
  IF a = 0 \/ tree[a].type \notin GrammarKinds THEN <<>>
  ELSE TableConcat(tree[a], TableEntries(tree[a].type))

Range(s) == {s[i] : i \in 1..Len(s)}

\* The raw node under each wrapper of a list.
RawOf(list) == [i \in 1..Len(list) |-> wrappers[list[i]].node]

LastOn(op) == result.op = op /\ result.target # 0

TargetRaw == wrappers[result.target].node

\* C1: for every raw node of a kind of the grammar table, children() returns
\* wrappers whose raw nodes are, in length and order, the children the table
\* lists for that kind (if: test, consequent, alternate when present; throw:
\* argument; try: block, handler and finalizer when present; ...).
C1_ChildrenMatchTable ==
  (/\ LastOn("children")
   /\ TargetRaw # 0
   /\ tree[TargetRaw].type \in GrammarKinds
   /\ ~HasNull(TableChildren(TargetRaw)))
  => (result.ok /\ RawOf(result.list) = TableChildren(TargetRaw))

\* The fields the design lets a well-formed node leave out.
OmittableFields(type) ==
  CASE type = "IfStatement"        -> {"alternate"}
    [] type = "ForStatement"       -> {"init", "test", "update"}
    [] type = "ReturnStatement"    -> {"argument"}
    [] type = "VariableDeclarator" -> {"init"}
    [] type = "SwitchCase"         -> {"test"}
    [] type = "TryStatement"       -> {"handler", "finalizer"}
    [] OTHER                       -> {}

\* Every child position of the node at a that is not omittable holds a node,
\* and its lists have no hole.
RequiredPresent(a) ==
  LET n == tree[a]
      es == IF n.type = "ReturnStatement" THEN <<EO("argument")>>
            ELSE TableEntries(n.type)
  IN \A i \in 1..Len(es) :
       /\ (es[i].mode = "one" /\ es[i].key \notin OmittableFields(n.type))
            => F(n, es[i].key) # 0
       /\ es[i].mode = "list" => ~HasNull(L(n, es[i].key))

\* C2: for every raw node of a supported kind, the raw children the extractor
\* produces hold no null entry: an absent optional field (an if without
\* alternate, a for without init, test or update, a return without argument,
\* a declarator without init, a switch case without test, a try without
\* handler or finalizer) is left out of the list.
C2_NoNullPlaceholder ==
  (/\ LastOn("children")
   /\ TargetRaw # 0
   /\ tree[TargetRaw].type \in GrammarKinds \cup {"ReturnStatement"}
   /\ RequiredPresent(TargetRaw)
   /\ _children(TargetRaw).ok)
  => ~HasNull(_children(TargetRaw).list)

\* Every case label of the extractor, over the three revisions.
KnownKinds ==
  GrammarKinds \cup
  {"LabeledStatement", "WithStatement", "ReturnStatement", "LetStatement",
   "ArrowExpression", "SequenceExpression"}

\* The digest of the design: the kind, and per field its name with the nested
\* kind for a node, [] for a list, the primitive type for another value.
DigestOf(d, a) ==
  /\ d.type = tree[a].type
  /\ Len(d.properties) = Len(tree[a].fields)
  /\ \A i \in 1..Len(tree[a].fields) :
       LET f == tree[a].fields[i] IN
       /\ d.properties[i].key = f.key
       /\ f.k = "node" => d.properties[i].tag = tree[f.a].type
       /\ f.k = "list" => d.properties[i].tag = "[]"
       /\ f.k = "prim" => d.properties[i].tag = f.t

\* C7: children() on a wrapper whose raw kind is in no grammar table (a
\* made-up kind) fails with the unknown-node-type failure, which carries the
\* node's kind and its field digest, and yields no children list.
C7_UnsupportedKindFails ==
  (/\ LastOn("children")
   /\ TargetRaw # 0
   /\ tree[TargetRaw].type \notin KnownKinds)
  => (/\ ~result.ok
      /\ result.err.name = "Unknown node type"
      /\ DigestOf(result.err.digest, TargetRaw)
      /\ result.list = <<>>
      /\ ~wrappers[result.target].hasChildren)

\* children() was called on a made-up kind with a node field, a list field, a
\* primitive field and a null field.
C7_Witness ==
  /\ LastOn("children")
  /\ TargetRaw # 0
  /\ tree[TargetRaw].type = "MadeUpKind"
  /\ ~result.ok
  /\ Len(result.err.digest.properties) = Len(tree[TargetRaw].fields)
  /\ \E i \in 1..Len(tree[TargetRaw].fields) : tree[TargetRaw].fields[i].k = "node"

\* C8: children() on a wrapper of a recognized kind whose extractor result
\* holds an absent entry (an if without consequent) fails with the
\* missing-child failure carrying the parent's digest; the null entry is
\* never wrapped and no other error is raised.
C8_MissingChildFails ==
  (/\ LastOn("children")
   /\ TargetRaw # 0
   /\ _children(TargetRaw).ok
   /\ HasNull(_children(TargetRaw).list))
  => (/\ ~result.ok
      /\ result.err.name = "Missing child"
      /\ DigestOf(result.err.digest, TargetRaw)
      /\ \A w \in 1..Len(wrappers) : wrappers[w].node # 0)

(***************************************************************************)
(* The wrapped tree as the heap holds it.                                  *)
(***************************************************************************)
Wrappers == 1..Len(wrappers)

Scopes == 1..Len(scopes)

\* The pre-order flattening of the subtree below w, over the children lists
\* the wrappers hold.
RECURSIVE Preorder(_)
RECURSIVE PreorderAll(_)
Preorder(w) == PreorderAll(wrappers[w].cachedChildren)

PreorderAll(ch) ==
  IF ch = <<>> THEN <<>> ELSE <<Head(ch)>> \o Preorder(Head(ch)) \o PreorderAll(Tail(ch))

\* The subtree below w is expanded to its leaves.
Expanded(w) ==
  /\ wrappers[w].hasChildren
  /\ \A i \in 1..Len(Preorder(w)) : wrappers[Preorder(w)[i]].hasChildren

\* C3: descendents() of a wrapper is the pre-order, depth-first,
\* left-to-right flattening of its subtree without the wrapper itself: over
\* its children in order, the child followed by the child's descendents;
\* empty for a node without children; and each element is the very wrapper
\* its parent's children list holds.
C3_DescendentsPreorder ==
  (LastOn("descendents") /\ result.ok)
  => (/\ Expanded(result.target)
      /\ result.list = Preorder(result.target)
      /\ (wrappers[result.target].cachedChildren = <<>> => result.list = <<>>))

\* descendents() returned a list holding a child and a grandchild.
C3_Witness ==
  /\ LastOn("descendents")
  /\ result.ok
  /\ Len(result.list) >= 3
  /\ \E i \in 1..Len(result.list) :
       /\ result.list[i] \notin Range(wrappers[result.target].cachedChildren)
       /\ i > 1

(***************************************************************************)
(* Scopes as the shape of the tree gives them.                             *)
(***************************************************************************)
ScopeIntroducing == {"Program", "FunctionDeclaration", "FunctionExpression"}

\* The raw node that lists a among its children, 0 for the root.
RawParent(a) ==
  IF \E b \in DOMAIN tree : a \in Range(TableChildren(b))
  THEN CHOOSE b \in DOMAIN tree : a \in Range(TableChildren(b))
  ELSE 0

RECURSIVE NearestScopeRaw(_)
NearestScopeRaw(a) ==
  IF a = 0 THEN 0
  ELSE IF tree[a].type \in ScopeIntroducing THEN a
  ELSE NearestScopeRaw(RawParent(a))

RECURSIVE UnderRoot(_)
UnderRoot(a) == a # 0 /\ RawParent(a) # 0 /\ (RawParent(a) = 1 \/ UnderRoot(RawParent(a)))

\* The nearest ancestor-or-self wrapper of a scope-introducing kind.
RECURSIVE NearestScopeWrapper(_)
NearestScopeWrapper(w) ==
  IF w = 0 THEN 0
  ELSE IF TypeOf(wrappers, w) \in ScopeIntroducing THEN w
  ELSE NearestScopeWrapper(wrappers[w].parent)

DeclaresIn(d, s) ==
  /\ HasIdentifierId(wrappers[d].node)
  /\ NearestScopeWrapper(wrappers[d].parent) = scopes[s].node

ExpectedIdentifiers(s) ==
  LET Keep(d) == DeclaresIn(d, s)
      ds == SelectSeq(Preorder(scopes[s].node), Keep)
  IN [i \in 1..Len(ds) |-> IdName(wrappers[ds[i]].node)]

\* C4: identifiers() of a scope S is, in the pre-order of the descendents of
\* S's node, the id names of the descendents that have an Identifier id and
\* whose parent's scope is S; a name declared k times in S appears k times.
C4_IdentifiersOfScope ==
  (LastOn("identifiers") /\ result.ok)
  => (/\ Expanded(scopes[result.target].node)
      /\ result.names = ExpectedIdentifiers(result.target)
      /\ scopes[result.target].cachedIdentifiers = result.names)

\* identifiers() returned a name twice for a scope declaring it twice.
C4_Witness ==
  /\ LastOn("identifiers")
  /\ result.ok
  /\ Len(result.names) >= 2
  /\ result.names[1] = result.names[2]

\* C5: under a program root, the name of every id-bearing descendant of the
\* root is in the identifier list of exactly one scope, the scope of its
\* parent: a name declared in the body of a nested function is in that
\* function's list and not in the root's.
C5_NamesInParentScopeOnly ==
  tree[1].type = "Program" =>
    \A s \in Scopes : scopes[s].hasIdentifiers =>
      \A a \in DOMAIN tree : (UnderRoot(a) /\ HasIdentifierId(a)) =>
        (IdName(a) \in Range(scopes[s].cachedIdentifiers)
           <=> NearestScopeRaw(RawParent(a)) = wrappers[scopes[s].node].node)

\* The lists of the root's scope and of a nested function's scope are both
\* computed, and the function's list holds a name the root's does not.
C5_Witness ==
  /\ tree[1].type = "Program"
  /\ \E r \in Scopes, f \in Scopes :
       /\ scopes[r].node = 1 /\ scopes[f].node # 1
       /\ scopes[r].hasIdentifiers /\ scopes[f].hasIdentifiers
       /\ scopes[r].cachedIdentifiers # <<>>
       /\ \E i \in 1..Len(scopes[f].cachedIdentifiers) :
            scopes[f].cachedIdentifiers[i] \notin Range(scopes[r].cachedIdentifiers)

\* C6: under a program root, scope() of a wrapper is a Scope whose node is
\* the nearest ancestor-or-self of kind Program, FunctionDeclaration or
\* FunctionExpression: the root's scope is the root's own, and a node in a
\* nested function's body resolves to that function's wrapper.
C6_NearestScope ==
  /\ \A w \in Wrappers : wrappers[w].cachedScope # 0 =>
       /\ wrappers[w].cachedScope \in Scopes
       /\ scopes[wrappers[w].cachedScope].node = NearestScopeWrapper(w)
       /\ wrappers[scopes[wrappers[w].cachedScope].node].node
            = NearestScopeRaw(wrappers[w].node)
  /\ (LastOn("scope") /\ tree[1].type = "Program") =>
       /\ result.ok
       /\ result.scope = wrappers[result.target].cachedScope
       /\ result.scope # 0

\* scope() was called on a node in a nested function's body and gave the
\* function's scope, the root's scope being another.
C6_Witness ==
  /\ LastOn("scope")
  /\ result.ok
  /\ tree[1].type = "Program"
  /\ TypeOf(wrappers, result.target) \notin ScopeIntroducing
  /\ scopes[result.scope].node # 1
  /\ wrappers[1].cachedScope # 0
  /\ wrappers[1].cachedScope # result.scope

\* C10: whatever the order of the first scope() calls, the wrappers with the
\* same nearest scope-introducing ancestor-or-self hold the one Scope
\* instance, one instance is made per scope-introducing wrapper, and two
\* scope-introducing wrappers have two instances.
C10_OneScopePerNode ==
  /\ \A s, t \in Scopes : scopes[s].node = scopes[t].node => s = t
  /\ \A s \in Scopes : wrappers[scopes[s].node].cachedScope = s
  /\ \A v, w \in Wrappers :
       (wrappers[v].cachedScope # 0 /\ wrappers[w].cachedScope # 0) =>
         (wrappers[v].cachedScope = wrappers[w].cachedScope
            <=> NearestScopeWrapper(v) = NearestScopeWrapper(w))

\* Two wrappers of one function body hold the same instance, asked leaf
\* first, and the root holds another.
C10_Witness ==
  /\ Len(scopes) >= 2
  /\ \E v, w \in Wrappers :
       /\ v # w
       /\ TypeOf(wrappers, v) \notin ScopeIntroducing
       /\ TypeOf(wrappers, w) \notin ScopeIntroducing
       /\ wrappers[v].cachedScope # 0
       /\ wrappers[v].cachedScope = wrappers[w].cachedScope
       /\ wrappers[v].cachedScope # wrappers[1].cachedScope
       /\ wrappers[1].cachedScope # 0
       /\ wrappers[1].cachedScope > wrappers[v].cachedScope

\* Where wrapper c is held: the (parent, index) pairs of the children lists.
HeldAt(c) ==
  {<<w, i>> \in Wrappers \X (1..Len(wrappers)) :
     i <= Len(wrappers[w].cachedChildren) /\ wrappers[w].cachedChildren[i] = c}

\* Every wrapper but the root is held at one place of one children list, and
\* (where the revision keeps parent links) its parent is the holder.
ChildrenShape ==
  /\ \A c \in Wrappers \ {1} : Cardinality(HeldAt(c)) = 1
  /\ \A w \in Wrappers : \A i \in 1..Len(wrappers[w].cachedChildren) :
       /\ wrappers[w].cachedChildren[i] \in Wrappers \ {1}
       /\ HasParentLinks => wrappers[wrappers[w].cachedChildren[i]].parent = w

\* A call keeps every wrapper and every filled children list as it was, and
\* a repeated children() or descendents() returns the wrappers already held.
StableStep ==
  /\ Len(wrappers') >= Len(wrappers)
  /\ \A w \in Wrappers :
       /\ wrappers'[w].node = wrappers[w].node
       /\ wrappers'[w].parent = wrappers[w].parent
       /\ wrappers[w].hasChildren =>
            /\ wrappers'[w].hasChildren
            /\ wrappers'[w].cachedChildren = wrappers[w].cachedChildren
  /\ (result'.op = "children" /\ wrappers[result'.target].hasChildren) =>
       (result'.ok /\ result'.list = wrappers[result'.target].cachedChildren)
  /\ (result'.op = "descendents" /\ Expanded(result'.target)) =>
       (result'.ok /\ result'.list = Preorder(result'.target))

\* C9: after any sequence of children(), descendents(), scope() and
\* identifiers() calls each child wrapper has been created once, on the first
\* request of its parent's children, and is never recreated: repeated
\* children() and descendents() return the same wrappers in the same order,
\* and every wrapper of n.children() has parent n.
C9_WrappersCreatedOnce == [][StableStep /\ ChildrenShape']_vars

\* children() was called again on a wrapper one of whose children had
\* already been expanded.
C9_Witness ==
  /\ LastOn("children")
  /\ result.ok
  /\ Len(result.list) >= 2
  /\ \E i \in 1..Len(result.list) :
       /\ wrappers[result.list[i]].hasChildren
       /\ wrappers[result.list[i]].cachedChildren # <<>>

(***************************************************************************)
(* Two callers on one wrapped tree.  The code takes no lock, so a call is  *)
(* the sequence of its reads and writes of the shared cache fields, and    *)
(* the reads and writes of the two callers interleave:                     *)
(*   "check"  the read in `this.cachedX || ...`                            *)
(*   "store"  the write `this.cachedX = ...` of what was computed          *)
(*   "ret"    the read in `return this.cachedX`                            *)
(* What a caller does between two of them touches its own locals and the   *)
(* immutable fields (node, parent, the raw tree) only.  A caller is a      *)
(* stack of activations (the innermost first), the value the last          *)
(* returned activation gave, the objects it has been handed, and what its  *)
(* finished calls returned.                                                *)
(***************************************************************************)
Callers == {1, 2}

\* Calls one caller makes.
MaxCalls == 2

NoValue == [list |-> <<>>, scope |-> 0, names |-> <<>>]

Frame(op, pc, w, s, list) ==
  [op |-> op, pc |-> pc, w |-> w, s |-> s, list |-> list,
   ch |-> <<>>, i |-> 0, names |-> <<>>]

Idle ==
  [stack |-> <<>>, ret |-> NoValue, heldNodes |-> {1}, heldScopes |-> {},
   seen |-> {}, calls |-> 0]

SetTop(cs, f) == [cs EXCEPT !.stack = <<f>> \o Tail(@)]

Push(cs, f) == [cs EXCEPT !.stack = <<f>> \o @]

TargetOf(f) == IF f.op = "identifiers" THEN f.s ELSE f.w

\* The innermost activation returns v: to the activation below it, or to the
\* caller, who now holds the objects v names.
Return(cs, v) ==
  IF Len(cs.stack) > 1 THEN [cs EXCEPT !.stack = Tail(@), !.ret = v]
  ELSE [cs EXCEPT !.stack = <<>>,
                  !.ret = NoValue,
                  !.heldNodes = @ \cup {v.list[i] : i \in 1..Len(v.list)},
                  !.heldScopes = @ \cup (IF v.scope = 0 THEN {} ELSE {v.scope}),
                  !.seen = @ \cup {[op |-> Head(cs.stack).op,
                                    target |-> TargetOf(Head(cs.stack)),
                                    ok |-> TRUE, value |-> v, err |-> NoError]}]

\* Nothing catches: an exception unwinds every activation of the caller.
Unwind(cs, e) ==
  [cs EXCEPT !.stack = <<>>,
             !.ret = NoValue,
             !.seen = @ \cup {[op |-> cs.stack[Len(cs.stack)].op,
                               target |-> TargetOf(cs.stack[Len(cs.stack)]),
                               ok |-> FALSE, value |-> NoValue, err |-> e]}]

\* The caller's own steps, up to its next read or write of a cache field.
\*   descendents: "start" calls this.children(); "got" holds its value;
\*     "loop" is the for loop at index i, `list.push(children[i])` and the
\*     call children[i].descendents(list); "back" is after that call.
\*   scope: "body" is _scope(), a new Scope or the call this.parent.scope().
\*   identifiers: "body" calls this.node.descendents(); "loop" is the forEach
\*     callback at index i calling node.parentScope(); "back" compares what
\*     it gave with this scope and pushes the id name.
RECURSIVE Run(_, _)
Run(ws, cs) ==
  IF cs.stack = <<>> THEN cs
  ELSE
    LET f == Head(cs.stack) IN
    CASE f.op = "descendents" /\ f.pc = "start" ->
           Run(ws, Push(SetTop(cs, [f EXCEPT !.pc = "got"]),
                        Frame("children", "check", f.w, 0, <<>>)))
      [] f.op = "descendents" /\ f.pc = "got" ->
           Run(ws, SetTop(cs, [f EXCEPT !.pc = "loop", !.ch = cs.ret.list, !.i = 1]))
      [] f.op = "descendents" /\ f.pc = "loop" ->
           IF f.i > Len(f.ch) THEN Run(ws, Return(cs, [NoValue EXCEPT !.list = f.list]))
           ELSE Run(ws, Push(SetTop(cs, [f EXCEPT !.pc = "back"]),
                             Frame("descendents", "start", f.ch[f.i], 0,
                                   Append(f.list, f.ch[f.i]))))
      [] f.op = "descendents" /\ f.pc = "back" ->
           Run(ws, SetTop(cs, [f EXCEPT !.pc = "loop", !.list = cs.ret.list,
                                        !.i = @ + 1]))
      [] f.op = "scope" /\ f.pc = "body" ->
           IF IntroducesScope(TypeOf(ws, f.w))
           THEN SetTop(cs, [f EXCEPT !.pc = "storeNew"])
           ELSE IF ws[f.w].parent = 0 THEN Unwind(cs, TypeError)
           ELSE Run(ws, Push(SetTop(cs, [f EXCEPT !.pc = "store"]),
                             Frame("scope", "check", ws[f.w].parent, 0, <<>>)))
      [] f.op = "identifiers" /\ f.pc = "body" ->
           Run(ws, Push(SetTop(cs, [f EXCEPT !.pc = "got"]),
                        Frame("descendents", "start", f.w, 0, <<>>)))
      [] f.op = "identifiers" /\ f.pc = "got" ->
           Run(ws, SetTop(cs, [f EXCEPT !.pc = "loop", !.ch = cs.ret.list, !.i = 1]))
      [] f.op = "identifiers" /\ f.pc = "loop" ->
           IF f.i > Len(f.ch) THEN SetTop(cs, [f EXCEPT !.pc = "store"])
           ELSE IF ws[f.ch[f.i]].parent = 0 THEN Unwind(cs, TypeError)
           ELSE Run(ws, Push(SetTop(cs, [f EXCEPT !.pc = "back"]),
                             Frame("scope", "check", ws[f.ch[f.i]].parent, 0, <<>>)))
      [] f.op = "identifiers" /\ f.pc = "back" ->
           Run(ws, SetTop(cs, [f EXCEPT
                 !.pc = "loop",
                 !.i = @ + 1,
                 !.names = IF cs.ret.scope = f.s /\ HasIdentifierId(ws[f.ch[f.i]].node)
                           THEN Append(@, IdName(ws[f.ch[f.i]].node))
                           ELSE @]))
      [] OTHER -> cs

Shared(ws, ss, cs) == [ws |-> ws, ss |-> ss, cs |-> cs]

\* `this.cachedChildren = this._children().map(...)`, whatever the field
\* holds by now; r is what the map gave.
storeChildren(ss, cs, r) ==
  IF ~r.ok THEN Shared(r.ws, ss, Unwind(cs, r.err))
  ELSE Shared(r.ws, ss, SetTop(cs, [Head(cs.stack) EXCEPT !.pc = "ret"]))

\* Mutant: every node is cached as a leaf.
mapChildrenLeaf(ws, w) == NodeOk([ws EXCEPT ![w].hasChildren = TRUE], <<>>)

mapChildren(ws, w) ==
  IF ws[w].node = 0 THEN NodeErr(ws, TypeError)
  ELSE wrapChildren(ws, w, _children(ws[w].node))

\* One read or write of a cache field by the innermost activation of cs.
Access(ws, ss, cs) ==
  LET f == Head(cs.stack) IN
  CASE f.op = "children" /\ f.pc = "check" ->
         Shared(ws, ss, SetTop(cs, [f EXCEPT !.pc =
                  IF ChildrenCached(ws, f.w) THEN "ret" ELSE "store"]))
    [] f.op = "children" /\ f.pc = "store" ->
         storeChildren(ss, cs, mapChildren(ws, f.w))
    [] f.op = "children" /\ f.pc = "ret" ->
         Shared(ws, ss, Return(cs, [NoValue EXCEPT !.list = ws[f.w].cachedChildren]))
    [] f.op = "scope" /\ f.pc = "check" ->
         Shared(ws, ss, SetTop(cs, [f EXCEPT !.pc =
                  IF ScopeCached(ws, f.w) THEN "ret" ELSE "body"]))
    [] f.op = "scope" /\ f.pc = "storeNew" ->
         Shared([ws EXCEPT ![f.w].cachedScope = Len(ss) + 1],
                Append(ss, Scope(f.w)),
                SetTop(cs, [f EXCEPT !.pc = "ret"]))
    [] f.op = "scope" /\ f.pc = "store" ->
         Shared([ws EXCEPT ![f.w].cachedScope = cs.ret.scope], ss,
                SetTop(cs, [f EXCEPT !.pc = "ret"]))
    [] f.op = "scope" /\ f.pc = "ret" ->
         Shared(ws, ss, Return(cs, [NoValue EXCEPT !.scope = ws[f.w].cachedScope]))
    [] f.op = "identifiers" /\ f.pc = "check" ->
         Shared(ws, ss, SetTop(cs, [f EXCEPT !.pc =
                  IF IdentifiersCached(ss, f.s) THEN "ret" ELSE "body"]))
    [] f.op = "identifiers" /\ f.pc = "store" ->
         Shared(ws,
                [ss EXCEPT ![f.s].hasIdentifiers = TRUE,
                           ![f.s].cachedIdentifiers = f.names],
                SetTop(cs, [f EXCEPT !.pc = "ret"]))
    [] f.op = "identifiers" /\ f.pc = "ret" ->
         Shared(ws, ss, Return(cs, [NoValue EXCEPT !.names = ss[f.s].cachedIdentifiers]))

\* The state after caller c's access a, run on to its next access.
After(c, a) ==
  /\ wrappers' = a.ws
  /\ scopes' = a.ss
  /\ callers' = [callers EXCEPT ![c] = Run(a.ws, a.cs)]
  /\ UNCHANGED <<variant, tree, result>>

\* An idle caller calls a method of an object it holds; the call runs to its
\* first read of the cache field and performs it.
Call(c, f) ==
  /\ callers[c].stack = <<>>
  /\ callers[c].calls < MaxCalls
  /\ After(c, Access(wrappers, scopes,
                     [callers[c] EXCEPT !.stack = <<f>>, !.calls = @ + 1]))

CallChildren(c, w) ==
  /\ w \in callers[c].heldNodes
  /\ Call(c, Frame("children", "check", w, 0, <<>>))

CallScope(c, w) ==
  /\ HasParentLinks
  /\ w \in callers[c].heldNodes
  /\ Call(c, Frame("scope", "check", w, 0, <<>>))

CallIdentifiers(c, s) ==
  /\ s \in callers[c].heldScopes
  /\ Call(c, Frame("identifiers", "check", scopes[s].node, s, <<>>))

\* The next read or write of a caller inside a call.
Step(c) ==
  /\ callers[c].stack # <<>>
  /\ After(c, Access(wrappers, scopes, callers[c]))

\* function f() {}
SharedProgram ==
  <<N("Program", "", <<fList("body", <<2>>)>>),
    FunctionNode("FunctionDeclaration", 3, 4),
    Ident("f"),
    Block(<<>>)>>

\* var a = 1;
SharedDeclaration ==
  <<N("Program", "", <<fList("body", <<2>>)>>),
    VarDecl(<<3>>),
    N("VariableDeclarator", "", <<fNode("id", 4), fNode("init", 5)>>),
    Ident("a"),
    Lit>>

SharedTrees == {SharedProgram, SharedDeclaration}

InitConcurrent ==
  /\ variant \in Variants
  /\ tree \in SharedTrees
  /\ wrappers = <<Node(1, 0)>>
  /\ scopes = <<>>
  /\ result = NoResult
  /\ callers = [c \in Callers |-> Idle]

NextConcurrent ==
  \/ \E c \in Callers : \E w \in 1..Len(wrappers) : CallChildren(c, w)
  \/ \E c \in Callers : \E w \in 1..Len(wrappers) : CallScope(c, w)
  \/ \E c \in Callers : \E s \in 1..Len(scopes) : CallIdentifiers(c, s)
  \/ \E c \in Callers : Step(c)

SpecConcurrent == InitConcurrent /\ [][NextConcurrent]_vars

(***************************************************************************)
(* What one sequential caller obtains, computed by the sequential          *)
(* operations on a heap of its own: the whole tree expanded from the root, *)
(* then scope() and identifiers() on the wrapper of the raw node a.        *)
(***************************************************************************)
SequentialHeap == descendents(<<Node(1, 0)>>, 1, <<>>).ws

SequentialWrapper(h, a) == CHOOSE w \in 1..Len(h) : h[w].node = a

SequentialChildren(h, a) ==
  LET ch == h[SequentialWrapper(h, a)].cachedChildren
  IN [i \in 1..Len(ch) |-> h[ch[i]].node]

SequentialScope(h, a) == scope(h, <<>>, SequentialWrapper(h, a))

\* The raw node of the scope of a.
SequentialScopeNode(h, a) ==
  LET r == SequentialScope(h, a) IN r.ws[r.ss[r.scope].node].node

\* The identifiers of the scope of the scope-introducing raw node a.
SequentialIdentifiers(h, a) ==
  LET r == SequentialScope(h, a) IN identifiers(r.ws, r.ss, r.scope).names

Seen == UNION {callers[c].seen : c \in DOMAIN callers}

SeenOf(op) == {o \in Seen : o.op = op}

ScopeRaw(s) == wrappers[scopes[s].node].node

\* What the callers were given by children() and scope() is what the
\* sequential caller, whose heap is h, is given: wrappers of the same raw
\* nodes in the same order, and a Scope of the same raw node.
SameChildrenAndScopes(h) ==
  /\ \A o \in Seen : o.ok
  /\ \A o \in SeenOf("children") :
       RawOf(o.value.list) = SequentialChildren(h, wrappers[o.target].node)
  /\ \A o \in SeenOf("scope") :
       ScopeRaw(o.value.scope) = SequentialScopeNode(h, wrappers[o.target].node)

SameIdentifiers(h) ==
  \A o \in SeenOf("identifiers") :
    o.value.names = SequentialIdentifiers(h, ScopeRaw(o.target))

\* C11 (as stated): when two uncoordinated callers interleave their first
\* accesses to the memoized children, scope and identifiers of a shared
\* wrapped tree, each observes what a single sequential caller obtains: the
\* same children, the same scope for each node, and the same identifiers()
\* list for a scope.
C11_SameAsSequential ==
  Seen # {} => (SameChildrenAndScopes(SequentialHeap) /\ SameIdentifiers(SequentialHeap))

RECURSIVE IsSubsequence(_, _)
IsSubsequence(s, t) ==
  IF s = <<>> THEN TRUE
  ELSE IF t = <<>> THEN FALSE
  ELSE IF Head(s) = Head(t) THEN IsSubsequence(Tail(s), Tail(t))
  ELSE IsSubsequence(s, Tail(t))

SubsequenceIdentifiers(h) ==
  \A o \in SeenOf("identifiers") :
    IsSubsequence(o.value.names, SequentialIdentifiers(h, ScopeRaw(o.target)))

\* C11 (amended): under such interleaving each caller is given children
\* wrapping the same raw nodes in the same order and, for each node, a Scope
\* of the same raw node as a sequential caller; the wrapper and Scope objects
\* may be duplicates, and identifiers() of a Scope gives a subsequence of the
\* sequential list, from which names may be missing.
C11_SameUpToMissingNames ==
  Seen # {} =>
    (SameChildrenAndScopes(SequentialHeap) /\ SubsequenceIdentifiers(SequentialHeap))

\* Two callers raced on the first scope() of the root and hold two Scope
\* objects of it; identifiers() gave one the sequential list and the other a
\* shorter one.
C11_Witness ==
  \E o \in SeenOf("identifiers"), p \in SeenOf("identifiers") :
    /\ o.target # p.target
    /\ ScopeRaw(o.target) = 1
    /\ ScopeRaw(p.target) = 1
    /\ p.value.names = SequentialIdentifiers(SequentialHeap, 1)
    /\ Len(o.value.names) < Len(p.value.names)

(***************************************************************************)
(* Lazy validation.  A raw node is rejected when mapping its children      *)
(* throws: the extractor has no case for its kind, or (where wrapping a    *)
(* null entry throws) its extracted list holds a null entry; a null entry  *)
(* that was wrapped (part_001) is rejected when it is expanded.            *)
(***************************************************************************)
Rejected(a) == ~mapChildren(<<Node(a, 0)>>, 1).ok

\* A rejected node at a or below it, along the lists the extractor gives.
RECURSIVE RejectedBelow(_)
RejectedBelow(a) ==
  \/ Rejected(a)
  \/ \E i \in 1..Len(_children(a).list) : RejectedBelow(_children(a).list[i])

\* The state Spiderman(ast) leaves: the root wrapper, nothing expanded.
NothingExpanded ==
  /\ Len(wrappers) = 1
  /\ wrappers[1].node = 1
  /\ ~wrappers[1].hasChildren
  /\ wrappers[1].cachedScope = 0
  /\ scopes = <<>>

\* Construction expands nothing, and a call fails only by expanding a
\* rejected node: children() on its wrapper, descendents() on it or an
\* ancestor, identifiers() on a scope of it or of an ancestor.
FailsOnlyWhereExpanded ==
  /\ result.op = "" => (result.ok /\ NothingExpanded)
  /\ (LastOn("children") /\ ~result.ok) => Rejected(TargetRaw)
  /\ (LastOn("descendents") /\ ~result.ok) => RejectedBelow(TargetRaw)
  /\ (LastOn("identifiers") /\ ~result.ok) => RejectedBelow(ScopeRaw(result.target))

\* C12 (as stated): validation is lazy: constructing the root wrapper never
\* fails and expands nothing; a malformed or unsupported raw node m makes
\* only the operations fail that expand m (children() on m's wrapper,
\* descendents() or identifiers() on an ancestor or enclosing scope of m);
\* children() and scope() on the other nodes succeed; and once the whole
\* tree under the root is expanded, as descendents() of the root leaves it,
\* every later children(), descendents(), scope() and identifiers() call on
\* any node succeeds.
C12_LazyValidation ==
  /\ FailsOnlyWhereExpanded
  /\ LastOn("scope") => result.ok
  /\ Expanded(1) => result.ok

\* C12 (amended): the same, with scope() succeeding on every node, before
\* and after the tree is expanded, when the root is of a scope-introducing
\* kind (a program root); under another root scope() fails on the nodes
\* outside every function, expanded or not.
C12_LazyValidationUnderScopeRoot ==
  /\ FailsOnlyWhereExpanded
  /\ (LastOn("scope") /\ tree[1].type \in ScopeIntroducing) => result.ok
  /\ (Expanded(1) /\ ~result.ok) =>
       (LastOn("scope") /\ NearestScopeWrapper(result.target) = 0)

\* Under a program root holding a rejected node, children() and scope() of
\* the root have succeeded and children() on the rejected node's wrapper
\* has just failed.
C12_Witness ==
  /\ tree[1].type = "Program"
  /\ LastOn("children")
  /\ ~result.ok
  /\ result.target # 1
  /\ wrappers[1].hasChildren
  /\ wrappers[1].cachedScope # 0
  /\ ~Rejected(1)

(***************************************************************************)
(* Failing calls and the caches.                                           *)
(***************************************************************************)
\* The failure of the call on a heap of its own holding only a wrapper of
\* the raw node a.
FreshError(op, a) ==
  IF op = "children" THEN mapChildren(<<Node(a, 0)>>, 1).err
  ELSE descendents(<<Node(a, 0)>>, 1, <<>>).err

\* Every cache filled before the step holds what it held, and the wrappers
\* are the same objects.
CachesKept ==
  /\ Len(wrappers') >= Len(wrappers)
  /\ Len(scopes') >= Len(scopes)
  /\ \A w \in Wrappers :
       /\ wrappers'[w].node = wrappers[w].node
       /\ wrappers[w].hasChildren =>
            /\ wrappers'[w].hasChildren
            /\ wrappers'[w].cachedChildren = wrappers[w].cachedChildren
       /\ wrappers[w].cachedScope # 0 =>
            wrappers'[w].cachedScope = wrappers[w].cachedScope
  /\ \A s \in Scopes : scopes'[s] = scopes[s]

\* The step is a children(), descendents() or identifiers() call that failed.
FailedCall ==
  /\ result'.op \in {"children", "descendents", "identifiers"}
  /\ ~result'.ok

\* What a failed call leaves.  The failure is the one the call raises on a
\* heap with nothing cached, so it is the same at every repetition.
FailureLeaves ==
  /\ CachesKept
  /\ result'.op = "children" => ~wrappers'[result'.target].hasChildren
  /\ \A w \in 1..Len(wrappers') :
       Rejected(wrappers'[w].node) => ~wrappers'[w].hasChildren
  /\ result'.op = "identifiers" => ~scopes'[result'.target].hasIdentifiers
  /\ result'.list = <<>>
  /\ result'.names = <<>>
  /\ result'.err # NoError
  /\ result'.err =
       FreshError(result'.op,
                  IF result'.op = "identifiers"
                  THEN wrappers'[scopes'[result'.target].node].node
                  ELSE wrappers'[result'.target].node)
  /\ (result.op = result'.op /\ result.target = result'.target /\ ~result.ok) =>
       result'.err = result.err

\* C13: a children(), descendents() or identifiers() call that fails leaves
\* the children cache of the failing node and the identifier cache of the
\* scope unset and every cache filled before as it was (the children lists
\* of expanded nodes keep the same wrappers), so the same call repeated
\* raises the same failure and no partial list is returned.
C13_FailureLeavesCaches == [][FailedCall => FailureLeaves]_vars

\* descendents() failed below a wrapper it had expanded: the wrapper's
\* children are cached, the rejected node's are not.
C13_Witness ==
  /\ LastOn("descendents")
  /\ ~result.ok
  /\ wrappers[result.target].hasChildren
  /\ \E w \in Wrappers :
       /\ w \in Range(wrappers[result.target].cachedChildren)
       /\ Rejected(wrappers[w].node)
       /\ ~wrappers[w].hasChildren

====
